---------------------------- MODULE Spec2Model ----------------------------
(***************************************************************************)
(* Model of the Emakia Node concern agents (toxicity, bias,                *)
(* misinformation, coordination): the keyword fallback scorer and the      *)
(* optional remote-model wrapper `analyze`.                                *)
(*                                                                         *)
(* Scores are exact rationals in units of 1/One (One = 84000, a multiple   *)
(* of 100 and of every possible number of matched categories 1..8), so a   *)
(* category score and the mean of category scores are integers.  IEEE-754  *)
(* rounding of the JavaScript doubles is not modelled.  The timestamp      *)
(* field of a record is not modelled.  The per-agent field names (isToxic, *)
(* hasBias, hasMisinformation, hasCoordination; toxicityScore, biasScore,  *)
(* ...; flaggedWords, flaggedPhrases) are modelled by the common names     *)
(* flagged, score and flaggedWords.                                        *)
(*                                                                         *)
(* The module also models the aggregators built on the agents              *)
(* (calculateOverallRisk, analyzeWithAgents, classifyPost) and the YouTube *)
(* analyzer (fetchTranscript, analyzeVideo, the useYouTubeAnalysis hook),  *)
(* each under a specification of its own over the same variables.  A       *)
(* request that never settles is modelled for the agents only.             *)
(***************************************************************************)
EXTENDS Integers, Sequences, FiniteSets, TLC

(***************************************************************************)
(* Bounds                                                                  *)
(***************************************************************************)
\* largest number of vocabulary pieces joined into one input text
MaxWords == 3

(***************************************************************************)
(* Score units                                                             *)
(***************************************************************************)
One == 84000
Pct(n) == n * (One \div 100)

Min(a, b) == IF a <= b THEN a ELSE b
Max(a, b) == IF a >= b THEN a ELSE b

(***************************************************************************)
(* JavaScript string primitives used by the agents                        *)
(***************************************************************************)
Chr(s, i) == SubSeq(s, i, i)

UpperCase == "ABCDEFGHIJKLMNOPQRSTUVWXYZ"
LowerCase == "abcdefghijklmnopqrstuvwxyz"

\* one character of String.prototype.toLowerCase
LowerChar(c) ==
    IF \E i \in 1..26 : Chr(UpperCase, i) = c
    THEN Chr(LowerCase, CHOOSE i \in 1..26 : Chr(UpperCase, i) = c)
    ELSE c

RECURSIVE LowerRange(_, _, _)
LowerRange(s, lo, hi) ==
    IF lo > hi THEN ""
    ELSE IF lo = hi THEN LowerChar(Chr(s, lo))
    ELSE LET mid == (lo + hi) \div 2
         IN LowerRange(s, lo, mid) \o LowerRange(s, mid + 1, hi)

\* String.prototype.toLowerCase
toLowerCase(s) == LowerRange(s, 1, Len(s))

\* the characters matched by the regular expression class \s that occur in inputs
IsSpace(c) == c \in {" ", "\t", "\n"}

\* the first position from i on that holds a whitespace character, Len(s) + 1 if none
NextSpace(s, i) ==
    IF \E j \in i..Len(s) : IsSpace(Chr(s, j))
    THEN CHOOSE j \in i..Len(s) :
            IsSpace(Chr(s, j)) /\ \A h \in i..(j - 1) : ~IsSpace(Chr(s, h))
    ELSE Len(s) + 1

\* the first position from i on that holds no whitespace character, Len(s) + 1 if none
NextNonSpace(s, i) ==
    IF \E j \in i..Len(s) : ~IsSpace(Chr(s, j))
    THEN CHOOSE j \in i..Len(s) :
            ~IsSpace(Chr(s, j)) /\ \A h \in i..(j - 1) : IsSpace(Chr(s, h))
    ELSE Len(s) + 1

\* String.prototype.split(/\s+/): every maximal run of whitespace separates two
\* tokens; leading or trailing whitespace gives an empty first or last token
RECURSIVE SplitFrom(_, _)
SplitFrom(s, i) ==
    LET j == NextSpace(s, i)
        token == SubSeq(s, i, j - 1)
    IN IF j > Len(s) THEN <<token>>
       ELSE <<token>> \o SplitFrom(s, NextNonSpace(s, j))

splitNone(s) == <<s>>
split(s) == SplitFrom(s, 1)

\* String.prototype.includes
includes(w, k) ==
    \E i \in 0..(Len(w) - Len(k)) : SubSeq(w, i + 1, i + Len(k)) = k

\* Array.prototype.some over a keyword list
some(keywords, w) == \E j \in 1..Len(keywords) : includes(w, keywords[j])

(***************************************************************************)
(* The agents and their static tables (Object.entries order)               *)
(***************************************************************************)
Concerns == {"toxicity", "bias", "misinformation", "coordination"}

ToxicityPatterns == <<
    [category |-> "insults",
     keywords |-> <<"stupid", "idiot", "dumb", "fool", "moron", "imbecile", "retard", "cretin">>],
    [category |-> "hate_speech",
     keywords |-> <<"hate", "racist", "bigot", "nazi", "supremacist", "white power", "black power">>],
    [category |-> "violence",
     keywords |-> <<"kill", "murder", "attack", "violence", "weapon", "bomb", "shoot", "stab">>],
    [category |-> "profanity",
     keywords |-> <<"fuck", "shit", "damn", "hell", "bitch", "ass", "cunt", "dick", "pussy">>],
    [category |-> "threats",
     keywords |-> <<"threaten", "hurt you", "kill you", "attack you", "destroy you">>],
    [category |-> "harassment",
     keywords |-> <<"harass", "stalk", "bully", "intimidate", "terrorize">>] >>

BiasPatterns == <<
    [category |-> "gender_bias",
     keywords |-> <<"women can't", "men are better", "female driver", "male nurse">>],
    [category |-> "racial_bias",
     keywords |-> <<"race", "ethnicity", "minority", "stereotype", "prejudice">>],
    [category |-> "age_bias",
     keywords |-> <<"old people", "young people", "millennial", "boomer">>],
    [category |-> "religious_bias",
     keywords |-> <<"religion", "faith", "atheist", "believer", "heathen">>],
    [category |-> "socioeconomic_bias",
     keywords |-> <<"poor", "rich", "wealthy", "poverty", "privilege">>] >>

MisinformationPatterns == <<
    [category |-> "conspiracy_theories",
     keywords |-> <<"conspiracy", "cover up", "secret agenda", "hidden truth">>],
    [category |-> "pseudoscience",
     keywords |-> <<"quantum healing", "energy crystals", "alternative facts">>],
    [category |-> "clickbait",
     keywords |-> <<"you won't believe", "shocking truth", "number one secret">>],
    [category |-> "sensationalism",
     keywords |-> <<"breaking news", "urgent warning", "must see">>],
    [category |-> "unverified_claims",
     keywords |-> <<"studies show", "research proves", "experts agree">>] >>

CoordinationPatterns == <<
    [category |-> "bot_like_behavior",
     keywords |-> <<"automated", "bot", "script", "program", "algorithm">>],
    [category |-> "coordinated_campaigns",
     keywords |-> <<"campaign", "movement", "initiative", "drive", "push">>],
    [category |-> "manipulation_tactics",
     keywords |-> <<"astroturfing", "brigading", "vote manipulation">>],
    [category |-> "amplification",
     keywords |-> <<"share this", "retweet", "repost", "forward", "viral">>],
    [category |-> "echo_chambers",
     keywords |-> <<"echo chamber", "bubble", "filter", "algorithm">>] >>

\* MisinformationAgent.factualErrors
FactualErrors == <<
    [category |-> "geography", errors |-> <<
        [pattern |-> "paris is in spain",    correct |-> "Paris is in France",      score |-> Pct(90)],
        [pattern |-> "london is in france",  correct |-> "London is in England/UK", score |-> Pct(90)],
        [pattern |-> "tokyo is in china",    correct |-> "Tokyo is in Japan",       score |-> Pct(90)],
        [pattern |-> "moscow is in ukraine", correct |-> "Moscow is in Russia",     score |-> Pct(90)],
        [pattern |-> "berlin is in austria", correct |-> "Berlin is in Germany",    score |-> Pct(90)] >>],
    [category |-> "science", errors |-> <<
        [pattern |-> "earth is flat", correct |-> "Earth is spherical", score |-> Pct(95)],
        [pattern |-> "vaccines cause autism",
         correct |-> "No scientific evidence supports this claim", score |-> Pct(90)],
        [pattern |-> "climate change is a hoax",
         correct |-> "Climate change is supported by scientific consensus", score |-> Pct(90)] >>],
    [category |-> "history", errors |-> <<
        [pattern |-> "world war 2 ended in 1944", correct |-> "WW2 ended in 1945", score |-> Pct(90)],
        [pattern |-> "nixon was president in 1960",
         correct |-> "Nixon was president 1969-1974", score |-> Pct(80)] >>] >>

\* the constant added to categoryScore for every matching word
Increment(c) ==
    CASE c = "toxicity"       -> Pct(30)
      [] c = "bias"           -> Pct(20)
      [] c = "misinformation" -> Pct(20)
      [] c = "coordination"   -> Pct(15)


(***************************************************************************)
(* JavaScript values passed as `text`                                      *)
(***************************************************************************)
Str(s) == [type |-> "string", str |-> s]
Undefined == [type |-> "undefined", str |-> ""]
Number42 == [type |-> "number", str |-> "42"]
IsString(t) == t.type = "string"

\* a property of an object: absent (undefined), or present with value v
Absent(default) == [present |-> FALSE, v |-> default]
Present(v) == [present |-> TRUE, v |-> v]

(***************************************************************************)
(* Analysis records                                                        *)
(***************************************************************************)
NoError == ""
NoModel == ""
FallbackModel == "fallback-pattern-matcher"
RemoteModel == "Qwen-3-32B"

\* the record literal fallbackAnalysis starts from
NewAnalysis(text) ==
    [text |-> text, flagged |-> FALSE, score |-> 0, severity |-> "none",
     categories |-> <<>>, flaggedWords |-> <<>>, recommendations |-> <<>>,
     model |-> FallbackModel, error |-> NoError]

\* the record literal of the catch blocks: no categories, flagged list,
\* recommendations or model field
ErrorRecord(text, message) ==
    [text |-> text, flagged |-> FALSE, score |-> 0, severity |-> "error",
     categories |-> <<>>, flaggedWords |-> <<>>, recommendations |-> <<>>,
     model |-> NoModel, error |-> message]

\* completion of a call: a returned value or a thrown exception
Normal(v) == [threw |-> FALSE, value |-> v]
Thrown(text) == [threw |-> TRUE, value |-> ErrorRecord(text, "uncaught")]

\* analysis.categories[category] = entry on an insertion-ordered object
SetKey(cats, entry) ==
    IF \E i \in 1..Len(cats) : cats[i].category = entry.category
    THEN [i \in 1..Len(cats) |->
            IF cats[i].category = entry.category THEN entry ELSE cats[i]]
    ELSE Append(cats, entry)

HasKey(cats, name) == \E i \in 1..Len(cats) : cats[i].category = name

RECURSIVE SumScores(_, _)
SumScores(cats, i) ==
    IF i > Len(cats) THEN 0 ELSE cats[i].score + SumScores(cats, i + 1)

(***************************************************************************)
(* The agent objects                                                       *)
(***************************************************************************)
VARIABLE
    agents            \* the agent object of every concern: the fields its methods use

\* a field no statement has assigned yet
Unset == Absent(<<>>)

\* new ToxicityAgent(), new BiasAgent(), new MisinformationAgent(),
\* new CoordinationAgent(): the fields the scorer reads and the fields the
\* update methods write
constructor(c) ==
    CASE c = "toxicity"       -> [fallbackPatterns |-> ToxicityPatterns]
      [] c = "bias"           -> [fallbackPatterns |-> BiasPatterns]
      [] c = "misinformation" ->
            [fallbackPatterns |-> MisinformationPatterns,
             factualErrors |-> FactualErrors,
             misinformationPatterns |-> Unset,
             redFlags |-> Unset,
             severityLevels |-> Unset]
      [] c = "coordination"   ->
            [fallbackPatterns |-> CoordinationPatterns,
             coordinationPatterns |-> Unset,
             manipulationIndicators |-> Unset,
             severityLevels |-> Unset]

\* this.fallbackPatterns of the agent of concern c
fallbackPatterns(c) == agents[c].fallbackPatterns

\* this.factualErrors of the misinformation agent
factualErrors == agents["misinformation"].factualErrors

(***************************************************************************)
(* The fallback scorer                                                     *)
(***************************************************************************)
\* the test of one word against one category's keyword list
WordMatchesReversed(keywords, word) == \E j \in 1..Len(keywords) : includes(keywords[j], word)
WordMatchesExact(keywords, word) == \E j \in 1..Len(keywords) : word = keywords[j]
WordMatches(keywords, word) == some(keywords, word)

\* the score stored for a category from the accumulated categoryScore
CategoryScoreUncapped(categoryScore) == categoryScore
CategoryScore(categoryScore) == Min(categoryScore, One)

\* for (const word of words) { if (...) { matches.push(word); categoryScore += inc } }
RECURSIVE MatchWords(_, _, _, _, _)
MatchWords(words, i, keywords, inc, acc) ==
    IF i > Len(words) THEN acc
    ELSE IF WordMatches(keywords, words[i])
         THEN MatchWords(words, i + 1, keywords, inc,
                         [matches |-> Append(acc.matches, words[i]),
                          categoryScore |-> acc.categoryScore + inc])
         ELSE MatchWords(words, i + 1, keywords, inc, acc)

\* for (const [category, keywords] of Object.entries(this.fallbackPatterns)) {...}
RECURSIVE ScanCategories(_, _, _, _, _)
ScanCategories(patterns, k, words, inc, analysis) ==
    IF k > Len(patterns) THEN analysis
    ELSE LET m == MatchWords(words, 1, patterns[k].keywords, inc,
                             [matches |-> <<>>, categoryScore |-> 0])
             entry == [category |-> patterns[k].category,
                       score |-> CategoryScore(m.categoryScore),
                       matches |-> m.matches,
                       count |-> Len(m.matches),
                       correction |-> ""]
         IN IF Len(m.matches) > 0
            THEN ScanCategories(patterns, k + 1, words, inc,
                    [analysis EXCEPT !.categories = SetKey(@, entry),
                                     !.flaggedWords = @ \o m.matches])
            ELSE ScanCategories(patterns, k + 1, words, inc, analysis)

\* the overall score: mean of the scores in analysis.categories, 0 if there are none
OverallScoreOverTable(analysis, patterns) ==
    IF Len(analysis.categories) > 0
    THEN Min(SumScores(analysis.categories, 1) \div Len(patterns), One)
    ELSE 0
OverallScore(analysis, patterns) ==
    IF Len(analysis.categories) > 0
    THEN Min(SumScores(analysis.categories, 1) \div Len(analysis.categories), One)
    ELSE 0

\* the if / else-if chain that sets severity and the flag
DetermineSeverityStrict(analysis) ==
    IF analysis.score > Pct(80)
    THEN [analysis EXCEPT !.severity = "critical", !.flagged = TRUE]
    ELSE IF analysis.score > Pct(60)
    THEN [analysis EXCEPT !.severity = "high", !.flagged = TRUE]
    ELSE IF analysis.score > Pct(40)
    THEN [analysis EXCEPT !.severity = "medium", !.flagged = TRUE]
    ELSE IF analysis.score > Pct(20)
    THEN [analysis EXCEPT !.severity = "low", !.flagged = TRUE]
    ELSE analysis
DetermineSeverityUnflaggedLow(analysis) ==
    IF analysis.score >= Pct(80)
    THEN [analysis EXCEPT !.severity = "critical", !.flagged = TRUE]
    ELSE IF analysis.score >= Pct(60)
    THEN [analysis EXCEPT !.severity = "high", !.flagged = TRUE]
    ELSE IF analysis.score >= Pct(40)
    THEN [analysis EXCEPT !.severity = "medium", !.flagged = TRUE]
    ELSE IF analysis.score >= Pct(20)
    THEN [analysis EXCEPT !.severity = "low"]
    ELSE analysis
DetermineSeverity(analysis) ==
    IF analysis.score >= Pct(80)
    THEN [analysis EXCEPT !.severity = "critical", !.flagged = TRUE]
    ELSE IF analysis.score >= Pct(60)
    THEN [analysis EXCEPT !.severity = "high", !.flagged = TRUE]
    ELSE IF analysis.score >= Pct(40)
    THEN [analysis EXCEPT !.severity = "medium", !.flagged = TRUE]
    ELSE IF analysis.score >= Pct(20)
    THEN [analysis EXCEPT !.severity = "low", !.flagged = TRUE]
    ELSE analysis

\* ToxicityAgentAI.getSeverityLevel
getSeverityLevel(score) ==
    IF score >= Pct(80) THEN "critical"
    ELSE IF score >= Pct(60) THEN "high"
    ELSE IF score >= Pct(40) THEN "medium"
    ELSE IF score >= Pct(20) THEN "low"
    ELSE "none"

\* text.toLowerCase() raises a TypeError unless text is a string
fallbackThrows(text) == ~IsString(text)

\* the catch block of fallbackAnalysis
fallbackCatchRethrow(text) == Thrown(text)
fallbackCatch(text) == Normal(ErrorRecord(text, "Both API and fallback analysis failed"))

\* steps shared by the four scorers: category scan, overall score, severity
ScoreText(text, patterns, inc, start) ==
    LET words == split(toLowerCase(text.str))
        scanned == ScanCategories(patterns, 1, words, inc, start)
        scored == [scanned EXCEPT !.score = OverallScore(scanned, patterns)]
    IN DetermineSeverity(scored)

ToxicityFallback(text) ==
    IF fallbackThrows(text) THEN fallbackCatch(text)
    ELSE LET a == ScoreText(text, fallbackPatterns("toxicity"), Increment("toxicity"), NewAnalysis(text))
         IN Normal([a EXCEPT !.recommendations =
                IF a.flagged
                THEN <<"Toxic content detected. Consider moderation.">> \o
                     (IF HasKey(a.categories, "insults")
                      THEN <<"Personal insults detected. Review for community guidelines.">>
                      ELSE <<>>)
                ELSE <<>>])

BiasFallback(text) ==
    IF fallbackThrows(text) THEN fallbackCatch(text)
    ELSE LET a == ScoreText(text, fallbackPatterns("bias"), Increment("bias"), NewAnalysis(text))
         IN Normal([a EXCEPT !.recommendations =
                IF a.flagged
                THEN <<"Bias detected. Consider using more inclusive language.">>
                ELSE <<>>])

CoordinationFallback(text) ==
    IF fallbackThrows(text) THEN fallbackCatch(text)
    ELSE LET a == ScoreText(text, fallbackPatterns("coordination"), Increment("coordination"), NewAnalysis(text))
         IN Normal([a EXCEPT !.recommendations =
                IF a.flagged
                THEN <<"Coordinated behavior detected. Monitor for inauthentic activity.">>
                ELSE <<>>])

\* for (const [errorPattern, correction] of Object.entries(errors)) { if (lowerText.includes(errorPattern)) {...} }
RECURSIVE FactualErrorLoop(_, _, _, _, _)
FactualErrorLoop(category, errors, j, lowerText, st) ==
    IF j > Len(errors) THEN st
    ELSE IF includes(lowerText, errors[j].pattern)
         THEN FactualErrorLoop(category, errors, j + 1, lowerText,
                [found |-> TRUE,
                 analysis |-> [st.analysis EXCEPT
                    !.flagged = TRUE,
                    !.score = Max(@, errors[j].score),
                    !.categories = SetKey(@, [category |-> category,
                                              score |-> errors[j].score,
                                              matches |-> <<errors[j].pattern>>,
                                              count |-> 1,
                                              correction |-> errors[j].correct]),
                    !.flaggedWords = Append(@, errors[j].pattern),
                    !.recommendations =
                        Append(@, "Factual error detected: " \o errors[j].correct)]])
         ELSE FactualErrorLoop(category, errors, j + 1, lowerText, st)

\* for (const [category, errors] of Object.entries(this.factualErrors)) {...}
RECURSIVE FactualCategoryLoop(_, _, _)
FactualCategoryLoop(k, lowerText, st) ==
    IF k > Len(factualErrors) THEN st
    ELSE FactualCategoryLoop(k + 1, lowerText,
            FactualErrorLoop(factualErrors[k].category, factualErrors[k].errors,
                             1, lowerText, st))

\* if (analysis.hasMisinformation) { if (!factualErrorFound) { push the generic entry } }
GenericRecommendationWhenFlagged(flagged, factualErrorFound) == flagged
GenericRecommendation(flagged, factualErrorFound) == flagged /\ ~factualErrorFound

MisinformationFallback(text) ==
    IF fallbackThrows(text) THEN fallbackCatch(text)
    ELSE LET st == FactualCategoryLoop(1, toLowerCase(text.str),
                        [found |-> FALSE, analysis |-> NewAnalysis(text)])
             a == ScoreText(text, fallbackPatterns("misinformation"),
                            Increment("misinformation"),
                            st.analysis)
         IN Normal([a EXCEPT !.recommendations =
                IF GenericRecommendation(a.flagged, st.found)
                THEN Append(@, "Misinformation detected. Verify claims with reliable sources.")
                ELSE @])

\* agent.fallbackAnalysis(text) of the agent of concern c
fallbackAnalysis(c, text) ==
    CASE c = "toxicity"       -> ToxicityFallback(text)
      [] c = "bias"           -> BiasFallback(text)
      [] c = "misinformation" -> MisinformationFallback(text)
      [] c = "coordination"   -> CoordinationFallback(text)

(***************************************************************************)
(* The remote reply and parseAIResponse                                    *)
(***************************************************************************)
\* JavaScript  parsed.field || default  (falsy: undefined, false, 0, "")
OrDefaultAlways(field, falsy, default) == default
OrDefault(field, falsy, default) ==
    IF field.present /\ field.v # falsy THEN field.v ELSE default

\* the catch block of parseAIResponse
parseCatchRethrow(text) == Thrown(text)
parseCatch(text) == Normal(ErrorRecord(text, "Failed to parse AI response"))

\* parseAIResponse(aiResponse, originalText).  content.kind is
\*   "nonstring": aiResponse is not a string, aiResponse.match raises a TypeError
\*   "nojson":    the regular expression finds no {...} in the reply text
\*   "badjson":   JSON.parse raises a SyntaxError on the matched text
\*   "json":      JSON.parse returns content.parsed
parseAIResponse(content, originalText) ==
    IF content.kind # "json" THEN parseCatch(originalText)
    ELSE LET parsed == content.parsed IN
         Normal([text |-> originalText,
                 flagged |-> OrDefault(parsed.flagged, FALSE, FALSE),
                 score |-> OrDefault(parsed.score, 0, 0),
                 severity |-> OrDefault(parsed.severity, "", "none"),
                 categories |-> OrDefault(parsed.categories, <<>>, <<>>),
                 flaggedWords |-> OrDefault(parsed.flaggedWords, <<>>, <<>>),
                 recommendations |-> OrDefault(parsed.recommendations, <<>>, <<>>),
                 model |-> RemoteModel,
                 error |-> NoError])

(***************************************************************************)
(* Inputs                                                                  *)
(***************************************************************************)
RECURSIVE Join(_, _)
Join(pieces, i) ==
    IF i > Len(pieces) THEN ""
    ELSE IF i = Len(pieces) THEN pieces[i]
    ELSE pieces[i] \o " " \o Join(pieces, i + 1)

\* the pieces the input texts of each agent are built from
Vocabulary(c) ==
    CASE c = "toxicity" ->
            {"", "you are stupid", "class", "Kill you\tkill\nmurder"}
      [] c = "bias" ->
            {"", "Poor", "embrace", "old people rich wealthy\npoverty"}
      [] c = "misinformation" ->
            {"", "Paris is in Spain", "conspiracy conspiracy",
             "earth is flat vaccines cause autism"}
      [] c = "coordination" ->
            {"", "Algorithm", "share this bot", "bot bot\tbot bot"}

\* texts given to every agent: the text of test-fallback.js, and a text of
\* whitespace only
Examples == {"you are stupid", " \t\n"}

Texts(c) ==
    { Str(Join(w, 1)) :
        w \in UNION { [1..n -> Vocabulary(c)] : n \in 0..MaxWords } }
    \cup { Str(e) : e \in Examples }
    \cup {Undefined, Number42}

SampleList == <<"sample">>

ParsedObjects ==
    { [flagged |-> f, score |-> s, severity |-> v,
       categories |-> l, flaggedWords |-> l, recommendations |-> l] :
        f \in {Absent(FALSE), Present(FALSE), Present(TRUE)},
        s \in {Absent(0), Present(0), Present(Pct(65)), Present(Pct(150))},
        v \in {Absent(""), Present("none"), Present("high"), Present("severe")},
        l \in {Absent(<<>>), Present(SampleList)} }

NoParsed ==
    [flagged |-> Absent(FALSE), score |-> Absent(0), severity |-> Absent(""),
     categories |-> Absent(<<>>), flaggedWords |-> Absent(<<>>),
     recommendations |-> Absent(<<>>)]

\* outcomes of the request:
\*   "transport": fetch rejects          "http":  response.ok is false
\*   "body":      response.json() rejects
\*   "shape":     data.choices[0].message.content raises a TypeError
\*   "content":   the reply text (or value) reaches parseAIResponse
FailureKinds == {"transport", "http", "body", "shape"}

Replies ==
    { [kind |-> k, content |-> [kind |-> "none", parsed |-> NoParsed]] : k \in FailureKinds }
    \cup { [kind |-> "content", content |-> [kind |-> k, parsed |-> NoParsed]] :
             k \in {"nonstring", "nojson", "badjson"} }
    \cup { [kind |-> "content", content |-> [kind |-> "json", parsed |-> p]] :
             p \in ParsedObjects }

NoReply == [kind |-> "none", content |-> [kind |-> "none", parsed |-> NoParsed]]

(***************************************************************************)
(* analyze(text)                                                           *)
(***************************************************************************)
VARIABLES
    cerebrasApiKey,   \* whether process.env.CEREBRAS_API_KEY was set at construction
    pc,               \* "idle", "fetching", "returned" or "rejected"
    agent,            \* the concern of the agent whose analyze is running
    text,             \* the argument of the call
    requests,         \* remote requests issued by the call
    endpoint,         \* "idle", "pending", or "silent" (will never respond)
    reply,            \* how the request ended
    result,           \* the record the call resolved with
    earlier,          \* the first direct fallbackAnalysis call made and its record
    summary,          \* the summary object of analyzeWithAgents
    overallRisk,      \* the value calculateOverallRisk returned for it
    post,             \* the argument of classifyPost
    classification,   \* how classifyPost(post) completed
    results,          \* the results object of analyzeWithAgents and its loop
    transcript,       \* the loop of fetchTranscript
    video,            \* the call of analyzeVideo on the server
    state             \* the state of the useYouTubeAnalysis hook and its request

callVars == <<cerebrasApiKey, pc, agent, text, requests, endpoint, reply, result>>
laterVars == <<results, transcript, video, state>>
otherVars == <<agents, earlier, summary, overallRisk, post, classification, laterVars>>
vars == <<callVars, otherVars>>

NoResult == ErrorRecord(Undefined, "no result")

\* if (!this.cerebrasApiKey) return this.fallbackAnalysis(text)
UseRemoteAlways(key) == TRUE
UseRemote(key) == key

\* config.agents.retryAttempts, which no agent reads
retryAttempts == 3
\* the number of fetch calls one analyze makes: one call, outside any loop
MaxAttempts == 1

\* the catch block of analyze
analyzeCatchError(c, t) == Normal(ErrorRecord(t, "Both API and fallback analysis failed"))
analyzeCatch(c, t) == fallbackAnalysis(c, t)

\* return this.fallbackAnalysis(text) inside analyze's try block
TryFallback(c, t) ==
    LET r == fallbackAnalysis(c, t)
    IN IF r.threw THEN analyzeCatch(c, t) ELSE r

\* the rest of the try block once the request has ended with reply r
AfterReply(c, t, r) ==
    IF r.kind \in FailureKinds THEN analyzeCatch(c, t)
    ELSE LET a == parseAIResponse(r.content, t)
         IN IF a.threw THEN analyzeCatch(c, t) ELSE a

Settle(completion) ==
    /\ pc' = IF completion.threw THEN "rejected" ELSE "returned"
    /\ result' = completion.value

\* no direct fallbackAnalysis call made yet
NoCall ==
    [called |-> FALSE, agent |-> "none", text |-> Undefined, value |-> NoResult,
     this |-> <<>>]

\* the summary literal analyzeWithAgents starts from
NewSummary ==
    [totalIssues |-> 0, criticalIssues |-> 0, highIssues |-> 0,
     mediumIssues |-> 0, lowIssues |-> 0]

NoRisk == "unset"

NoPost == [title |-> "", content |-> Undefined, metadata |-> Absent(Absent(""))]

\* a JavaScript number: NaN, or the score v in units of 1/One
NaN == [isNaN |-> TRUE, v |-> 0]
Num(v) == [isNaN |-> FALSE, v |-> v]

\* no ClassificationResult
NoValue ==
    [id |-> Absent(""), title |-> "", trustScore |-> NaN, flaggedCategories |-> <<>>,
     analysis |-> <<>>]

NoClassification == [called |-> FALSE, threw |-> FALSE, error |-> "", value |-> NoValue]

\* analyzeWithAgents has not been called
NoResults ==
    [pc |-> "idle", text |-> Undefined,
     agentsParam |-> [type |-> "undefined", str |-> "", names |-> <<>>],
     agentsToUse |-> <<>>, analyses |-> <<>>]

\* fetchTranscript has not been called
NoTranscript ==
    [pc |-> "idle", videoId |-> "", i |-> 0, attempts |-> <<>>, returned |-> "",
     error |-> ""]

\* analyzeVideo has not been called
NoVideo ==
    [pc |-> "idle", hasTranscript |-> TRUE, transcript |-> "", requests |-> 0,
     response |-> "none",
     value |-> [success |-> FALSE, analysis |-> Absent(""), error |-> Absent("")]]

\* useState({youtubeUrl: '', analysisResult: null, isAnalyzing: false, error: null}),
\* with no request in flight
useState ==
    [youtubeUrl |-> "", analysisResult |-> Absent(""), isAnalyzing |-> FALSE,
     error |-> Absent(""), request |-> "none"]

InitLater ==
    /\ results = NoResults
    /\ transcript = NoTranscript
    /\ video = NoVideo
    /\ state = useState

\* the agents are constructed and no call is in progress
InitAgents ==
    /\ cerebrasApiKey \in BOOLEAN
    /\ pc = "idle"
    /\ agent = "none"
    /\ text = Undefined
    /\ requests = 0
    /\ endpoint = "idle"
    /\ reply = NoReply
    /\ result = NoResult
    /\ agents = [c \in Concerns |-> constructor(c)]
    /\ earlier = NoCall

Init ==
    /\ InitAgents
    /\ InitLater
    /\ summary = NewSummary
    /\ overallRisk = NoRisk
    /\ post = NoPost
    /\ classification = NoClassification

\* a caller invokes agent.analyze(t): up to the await of fetch
Analyze(c, t) ==
    /\ pc = "idle"
    /\ agent' = c
    /\ text' = t
    /\ reply' = NoReply
    /\ IF UseRemote(cerebrasApiKey)
       THEN /\ pc' = "fetching"
            /\ requests' = 1
            /\ endpoint' = "pending"
            /\ result' = NoResult
       ELSE /\ Settle(TryFallback(c, t))
            /\ requests' = 0
            /\ endpoint' = "idle"
    /\ UNCHANGED cerebrasApiKey
    /\ UNCHANGED otherVars

\* the request ends with reply r: the rest of analyze runs
RemoteResponds(r) ==
    /\ pc = "fetching"
    /\ endpoint = "pending"
    /\ reply' = r
    /\ IF r.kind \in FailureKinds /\ requests < MaxAttempts
       THEN /\ requests' = requests + 1
            /\ UNCHANGED <<pc, endpoint, result>>
       ELSE /\ Settle(AfterReply(agent, text, r))
            /\ endpoint' = "idle"
            /\ UNCHANGED requests
    /\ UNCHANGED <<cerebrasApiKey, agent, text>>
    /\ UNCHANGED otherVars

\* the endpoint accepts the request and never answers it
RemoteGoesSilent ==
    /\ pc = "fetching"
    /\ endpoint = "pending"
    /\ endpoint' = "silent"
    /\ UNCHANGED <<cerebrasApiKey, pc, agent, text, requests, reply, result>>
    /\ UNCHANGED otherVars

\* the caller has consumed the settled promise; the agent is called again later
Return ==
    /\ pc \in {"returned", "rejected"}
    /\ pc' = "idle"
    /\ agent' = "none"
    /\ text' = Undefined
    /\ requests' = 0
    /\ reply' = NoReply
    /\ result' = NoResult
    /\ UNCHANGED <<cerebrasApiKey, endpoint>>
    /\ UNCHANGED otherVars

Next ==
    \/ \E c \in Concerns : \E t \in Texts(c) : Analyze(c, t)
    \/ \E r \in Replies : RemoteResponds(r)
    \/ RemoteGoesSilent
    \/ Return

Spec == Init /\ [][Next]_vars

\* the caller's continuation runs once the promise has settled, and an endpoint
\* that has not answered eventually answers or is lost for good; nobody is
\* obliged to start a call
FairSpec ==
    /\ Spec
    /\ WF_vars(RemoteGoesSilent)
    /\ WF_vars(Return)

(***************************************************************************)
(* The methods of an agent object called directly                          *)
(***************************************************************************)
\* { ...a, ...b }: the entries of a, then those of b, a key of b replacing the
\* entry a has for it
RECURSIVE SpreadInto(_, _, _)
SpreadInto(a, b, i) ==
    IF i > Len(b) THEN a ELSE SpreadInto(SetKey(a, b[i]), b, i + 1)

\* { ...this.field, ...newEntries } where this.field may be undefined
Spread(field, newEntries) == Present(SpreadInto(field.v, newEntries, 1))

\* updatePatterns(newPatterns) of the misinformation and coordination agents
updatePatternsOfScorer(c, this, newPatterns) ==
    [this EXCEPT !.fallbackPatterns = SpreadInto(@, newPatterns, 1)]
updatePatterns(c, this, newPatterns) ==
    CASE c = "misinformation" ->
            [this EXCEPT !.misinformationPatterns = Spread(@, newPatterns)]
      [] c = "coordination" ->
            [this EXCEPT !.coordinationPatterns = Spread(@, newPatterns)]

\* MisinformationAgent.updateRedFlags(newRedFlags)
updateRedFlags(this, newRedFlags) ==
    [this EXCEPT !.redFlags = Spread(@, newRedFlags)]

\* CoordinationAgent.updateIndicators(newIndicators)
updateIndicators(this, newIndicators) ==
    [this EXCEPT !.manipulationIndicators = Spread(@, newIndicators)]

\* updateSeverityLevels(newThresholds) of the misinformation and coordination agents
updateSeverityLevels(this, newThresholds) ==
    [this EXCEPT !.severityLevels = Spread(@, newThresholds)]

\* the agents that define the update methods
Updatable == {"misinformation", "coordination"}

\* arguments of the update methods (the README's examples)
NewPatterns == <<[category |-> "new_category", keywords |-> <<"new", "keywords", "here">>]>>
NewThresholds == <<[category |-> "custom", value |-> Pct(50)]>>

\* texts and request outcomes of the calls made between updates
FewTexts == {Str("you are stupid"), Str("Paris is in Spain news here")}

FewReplies ==
    { r \in Replies :
        \/ r.kind = "transport"
        \/ r.kind = "content" /\ r.content.kind = "nojson" }

\* agent.fallbackAnalysis(t) called directly on the agent of concern c
FallbackAnalysis(c, t) ==
    /\ pc = "idle"
    /\ agent' = c
    /\ text' = t
    /\ Settle(fallbackAnalysis(c, t))
    /\ requests' = 0
    /\ reply' = NoReply
    /\ earlier' = IF earlier.called THEN earlier
                  ELSE [called |-> TRUE, agent |-> c, text |-> t,
                        value |-> fallbackAnalysis(c, t).value, this |-> agents[c]]
    /\ UNCHANGED <<laterVars, cerebrasApiKey, endpoint, agents, summary, overallRisk, post,
                   classification>>

\* agent.parseAIResponse(aiResponse, t) called directly
ParseAIResponse(c, content, t) ==
    /\ pc = "idle"
    /\ agent' = c
    /\ text' = t
    /\ Settle(parseAIResponse(content, t))
    /\ requests' = 0
    /\ reply' = [kind |-> "content", content |-> content]
    /\ UNCHANGED <<cerebrasApiKey, endpoint>>
    /\ UNCHANGED otherVars

UpdatePatterns(c) ==
    /\ pc = "idle"
    /\ agents' = [agents EXCEPT ![c] = updatePatterns(c, @, NewPatterns)]
    /\ UNCHANGED <<callVars, earlier, summary, overallRisk, post, classification, laterVars>>

UpdateRedFlags ==
    /\ pc = "idle"
    /\ agents' = [agents EXCEPT !["misinformation"] = updateRedFlags(@, NewPatterns)]
    /\ UNCHANGED <<callVars, earlier, summary, overallRisk, post, classification, laterVars>>

UpdateIndicators ==
    /\ pc = "idle"
    /\ agents' = [agents EXCEPT !["coordination"] = updateIndicators(@, NewPatterns)]
    /\ UNCHANGED <<callVars, earlier, summary, overallRisk, post, classification, laterVars>>

UpdateSeverityLevels(c) ==
    /\ pc = "idle"
    /\ agents' = [agents EXCEPT ![c] = updateSeverityLevels(@, NewThresholds)]
    /\ UNCHANGED <<callVars, earlier, summary, overallRisk, post, classification, laterVars>>

AgentNext ==
    \/ \E c \in Concerns : \E t \in FewTexts : FallbackAnalysis(c, t)
    \/ \E c \in Concerns : \E t \in FewTexts : \E r \in FewReplies :
          r.kind = "content" /\ ParseAIResponse(c, r.content, t)
    \/ \E c \in Updatable : UpdatePatterns(c)
    \/ UpdateRedFlags
    \/ UpdateIndicators
    \/ \E c \in Updatable : UpdateSeverityLevels(c)
    \/ \E c \in Concerns : \E t \in FewTexts : Analyze(c, t)
    \/ \E r \in FewReplies : RemoteResponds(r)
    \/ RemoteGoesSilent
    \/ Return

AgentSpec == Init /\ [][AgentNext]_vars

(***************************************************************************)
(* calculateOverallRisk(summary)                                           *)
(***************************************************************************)
\* largest count of issues of one severity in a summary
MaxCount == 2

Summaries ==
    { [totalIssues |-> c + h + m + l, criticalIssues |-> c, highIssues |-> h,
       mediumIssues |-> m, lowIssues |-> l] :
        c \in 0..MaxCount, h \in 0..MaxCount, m \in 0..MaxCount, l \in 0..MaxCount }

\* the value returned, and the summary object as the call leaves it
calculateOverallRiskLowestFirst(s) ==
    [returned |-> IF s.lowIssues > 0 THEN "low"
                  ELSE IF s.mediumIssues > 0 THEN "medium"
                  ELSE IF s.highIssues > 0 THEN "high"
                  ELSE IF s.criticalIssues > 0 THEN "critical"
                  ELSE "none",
     summary |-> s]
calculateOverallRisk(s) ==
    [returned |-> IF s.criticalIssues > 0 THEN "critical"
                  ELSE IF s.highIssues > 0 THEN "high"
                  ELSE IF s.mediumIssues > 0 THEN "medium"
                  ELSE IF s.lowIssues > 0 THEN "low"
                  ELSE "none",
     summary |-> s]

RiskInit ==
    /\ InitAgents
    /\ InitLater
    /\ summary \in Summaries
    /\ overallRisk = NoRisk
    /\ post = NoPost
    /\ classification = NoClassification

\* results.overallRisk = calculateOverallRisk(results.summary)
CalculateOverallRisk ==
    /\ overallRisk = NoRisk
    /\ overallRisk' = calculateOverallRisk(summary).returned
    /\ summary' = calculateOverallRisk(summary).summary
    /\ UNCHANGED <<callVars, agents, earlier, post, classification, laterVars>>

RiskNext == CalculateOverallRisk

RiskSpec == RiskInit /\ [][RiskNext]_vars

(***************************************************************************)
(* analyzeWithAgents(text, agents, req)                                     *)
(***************************************************************************)
\* Object.keys(availableAgents)
ObjectKeys == <<"toxicity", "bias", "misinformation", "coordination">>

\* properties the availableAgents object literal inherits from Object.prototype
InheritedProperties == {"constructor", "toString"}

\* availableAgents[name] is truthy
Available(name) == name \in Concerns \/ name \in InheritedProperties

\* String.prototype.trim
trim(s) ==
    LET inked == {i \in 1..Len(s) : ~IsSpace(Chr(s, i))}
    IN IF inked = {} THEN ""
       ELSE SubSeq(s, CHOOSE i \in inked : \A j \in inked : i <= j,
                      CHOOSE i \in inked : \A j \in inked : i >= j)

\* agents.split(','), from position i
RECURSIVE SplitComma(_, _)
SplitComma(s, i) ==
    LET commas == {j \in i..Len(s) : Chr(s, j) = ","}
    IN IF commas = {} THEN <<SubSeq(s, i, Len(s))>>
       ELSE LET j == CHOOSE k \in commas : \A l \in commas : k <= l
            IN <<SubSeq(s, i, j - 1)>> \o SplitComma(s, j + 1)

\* the agents argument: undefined, a string, an array of names, or another
\* object (a nested query parameter)
AgentsParams ==
    { [type |-> t, str |-> "", names |-> <<>>] : t \in {"undefined", "object"} }
    \cup { [type |-> "string", str |-> str, names |-> <<>>] :
             str \in {"", "toxicity,bias", "toxicity, toxicity", "misinformation",
                      "bias,unknown,,constructor", " coordination ,toxicity"} }
    \cup { [type |-> "array", str |-> "", names |-> names] :
             names \in {<<>>, <<"toxicity", "bias", "misinformation", "coordination">>,
                        <<"misinformation", "misinformation">>, <<"toString", "bias">>,
                        <<" bias">>} }

\* lines 202-213: the names the loop runs over
agentsToUse(param) ==
    LET chosen ==
          IF param.type = "string" /\ param.str # ""
          THEN LET pieces == SplitComma(param.str, 1)
               IN [i \in 1..Len(pieces) |-> trim(pieces[i])]
          ELSE IF param.type = "array" THEN param.names
          ELSE ObjectKeys
    IN SelectSeq(chosen, Available)

\* outcomes of the request an agent makes while analyzeWithAgents awaits it
RunReplies ==
    { r \in Replies :
        \/ r.kind = "http"
        \/ /\ r.kind = "content" /\ r.content.kind = "json"
           /\ ~r.content.parsed.flagged.present
           /\ ~r.content.parsed.score.present
           /\ ~r.content.parsed.categories.present }

\* how  await agent.analyze(text)  can complete
Outcomes(c, t) ==
    IF UseRemote(cerebrasApiKey)
    THEN { AfterReply(c, t, r) : r \in RunReplies }
    ELSE { TryFallback(c, t) }

\* lines 227-239: the summary after an analysis of the given severity
UpdateSummary(s, severity) ==
    CASE severity = "critical" ->
            [s EXCEPT !.criticalIssues = @ + 1, !.totalIssues = @ + 1]
      [] severity = "high" ->
            [s EXCEPT !.highIssues = @ + 1, !.totalIssues = @ + 1]
      [] severity = "medium" ->
            [s EXCEPT !.mediumIssues = @ + 1, !.totalIssues = @ + 1]
      [] severity = "low" ->
            [s EXCEPT !.lowIssues = @ + 1, !.totalIssues = @ + 1]
      [] OTHER -> s

\* an entry of results.analyses, by its key: the severity, error and model of
\* the record stored under it
Entry(name, record) ==
    [category |-> name, severity |-> record.severity, error |-> record.error,
     model |-> record.model]

\* the entry the catch block of the loop stores
CatchEntry(name, message) ==
    [category |-> name, severity |-> "error", error |-> message, model |-> NoModel]

\* lines 186-213
AnalyzeWithAgents(t, param) ==
    /\ results.pc = "idle"
    /\ results' = [pc |-> "loop", text |-> t, agentsParam |-> param,
                   agentsToUse |-> agentsToUse(param), analyses |-> <<>>]
    /\ summary' = NewSummary
    /\ UNCHANGED <<callVars, agents, earlier, overallRisk, post, classification,
                   transcript, video, state>>

\* one iteration of the loop of lines 216-246
AnalyzeWithAgent ==
    /\ results.pc = "loop"
    /\ results.agentsToUse # <<>>
    /\ LET agentName == Head(results.agentsToUse) IN
       IF agentName \in Concerns
       THEN \E completion \in Outcomes(agentName, results.text) :
              IF completion.threw
              THEN /\ results' =
                        [results EXCEPT
                           !.agentsToUse = Tail(@),
                           !.analyses = SetKey(@, CatchEntry(agentName,
                                                   completion.value.error))]
                   /\ UNCHANGED summary
              ELSE /\ results' =
                        [results EXCEPT
                           !.agentsToUse = Tail(@),
                           !.analyses = SetKey(@, Entry(agentName, completion.value))]
                   /\ summary' = UpdateSummary(summary, completion.value.severity)
       ELSE /\ results' =
                 [results EXCEPT
                    !.agentsToUse = Tail(@),
                    !.analyses = SetKey(@, CatchEntry(agentName,
                                            "agent.analyze is not a function"))]
            /\ UNCHANGED summary
    /\ UNCHANGED <<callVars, agents, earlier, overallRisk, post, classification,
                   transcript, video, state>>

\* lines 247-249
ReturnResults ==
    /\ results.pc = "loop"
    /\ results.agentsToUse = <<>>
    /\ overallRisk' = calculateOverallRisk(summary).returned
    /\ summary' = calculateOverallRisk(summary).summary
    /\ results' = [results EXCEPT !.pc = "done"]
    /\ UNCHANGED <<callVars, agents, earlier, post, classification,
                   transcript, video, state>>

RunNext ==
    \/ \E t \in FewTexts : \E param \in AgentsParams : AnalyzeWithAgents(t, param)
    \/ AnalyzeWithAgent
    \/ ReturnResults

RunSpec == Init /\ [][RunNext]_vars

(***************************************************************************)
(* fetchTranscript(videoId) and analyzeVideo(videoId, apiKey)              *)
(***************************************************************************)
\* video ids extractVideoId gives: its capture groups match one character or more
VideoIds == {"dQw4w9WgXcQ", "a"}

\* what a transcript service can answer with: the joined transcript of
\* methods 1 and 2, the page text of method 3
ServiceTexts ==
    {"", "caption", "transcript", "no subtitle", "transcripts",
     "the captions of the video"}

\* a method settled: it threw, or returned a string
Threw(message) == [threw |-> TRUE, value |-> "", error |-> message]
Returned(value) == [threw |-> FALSE, value |-> value, error |-> ""]

\* methods 1 and 2: every failure throws, otherwise the texts joined
JoinedTranscript(k) ==
    { Threw("Method failed") } \cup { Returned(t) : t \in ServiceTexts }

\* method 3: the page text if it includes 'transcript' or 'caption'
PageText ==
    { Threw("Method 3 failed") }
    \cup { IF includes(t, "transcript") \/ includes(t, "caption")
           THEN Returned(t) ELSE Threw("No transcript found") : t \in ServiceTexts }

\* method 4: a constant text, no request
FallbackMethodFails(videoId) == { Threw("Method 4 failed") }
FallbackMethod(videoId) ==
    { Returned("This video does not have captions available. Please analyze based on the video title and description. Video ID: "
               \o videoId) }

\* methods[i]() for the 0-based index i
methods(i, videoId) ==
    CASE i = 0 -> JoinedTranscript(1)
      [] i = 1 -> JoinedTranscript(2)
      [] i = 2 -> PageText
      [] i = 3 -> FallbackMethod(videoId)

MethodsLength == 4

\* transcript && transcript.length > 10
UsableAlways(t) == TRUE
Usable(t) == t # "" /\ Len(t) > 10

\* one iteration of the loop of fetchTranscript, the method having settled as
\* `settled`; falling out of the loop throws
FetchStep(tr, settled) ==
    LET attempted == [tr EXCEPT !.attempts =
                        Append(@, [method |-> tr.i + 1, threw |-> settled.threw,
                                   value |-> settled.value])]
    IN IF ~settled.threw /\ Usable(settled.value)
       THEN [attempted EXCEPT !.pc = "returned", !.returned = settled.value]
       ELSE IF settled.threw /\ tr.i = MethodsLength - 1
       THEN [attempted EXCEPT !.pc = "threw",
               !.error = "All transcript methods failed. Video may not have captions available."]
       ELSE IF tr.i + 1 < MethodsLength
       THEN [attempted EXCEPT !.i = @ + 1]
       ELSE [attempted EXCEPT !.pc = "threw",
               !.error = "Failed to fetch transcript. Video may not have captions available."]

\* getVideoMetadata(videoId, apiKey): the metadata's title, or null; it
\* catches every exception
MetadataOutcomes == {Absent(""), Present("A title")}

\* the transcript analyzeVideo's catch block builds from the metadata
MetadataTranscript(videoId, metadata) ==
    IF metadata.present
    THEN "Video Title: " \o metadata.v
         \o "\n\nThis video does not have captions available. Please provide a general analysis based on the title and channel information."
    ELSE "Video ID: " \o videoId
         \o "\n\nThis video does not have captions available and metadata could not be retrieved. Please provide a general analysis based on the video ID."

\* how the OpenAI request can end:
\*   "transport":     fetch rejects
\*   "error_message": not OK, the JSON body has error.message
\*   "error_plain":   not OK, the JSON body is an object without error.message
\*   "error_null":    not OK, the JSON body is null: reading errorData.error raises
\*   "error_text":    not OK, the body is not JSON: response.json() rejects
\*   "invalid_json":  OK, response.json() rejects
\*   "no_choices":    OK, the JSON has no choices[0].message
\*   "completion":    OK, choices[0].message.content is a string
\*   "no_content":    OK, choices[0].message has no content
OpenAIResponses ==
    {"transport", "error_message", "error_plain", "error_null", "error_text",
     "invalid_json", "no_choices", "completion", "no_content"}

\* the outer catch block of analyzeVideo
analyzeVideoCatchRethrow(message) ==
    [pc |-> "rejected",
     value |-> [success |-> FALSE, analysis |-> Absent(""), error |-> Present(message)]]
analyzeVideoCatch(message) ==
    [pc |-> "resolved",
     value |-> [success |-> FALSE, analysis |-> Absent(""), error |-> Present(message)]]

\* analyzeVideo from the response of the OpenAI request on.  In the not-OK
\* branch the body has been consumed by response.json(), so response.text()
\* in the inner catch rejects.
AfterResponse(response) ==
    CASE response = "transport" -> analyzeVideoCatch("fetch failed")
      [] response = "error_message" -> analyzeVideoCatch("Incorrect API key provided")
      [] response = "error_plain" -> analyzeVideoCatch("OpenAI API request failed")
      [] response \in {"error_null", "error_text"} ->
            analyzeVideoCatch("Body is unusable: Body has already been read")
      [] response = "invalid_json" ->
            analyzeVideoCatch("Invalid JSON response from OpenAI API")
      [] response = "no_choices" ->
            analyzeVideoCatch("Cannot read properties of undefined (reading '0')")
      [] response = "completion" ->
            [pc |-> "resolved",
             value |-> [success |-> TRUE, analysis |-> Present("**Toxicity Score:** 3/10"),
                        error |-> Absent("")]]
      [] response = "no_content" ->
            [pc |-> "resolved",
             value |-> [success |-> TRUE, analysis |-> Absent(""), error |-> Absent("")]]

\* analyzeVideo(videoId, apiKey) up to await fetchTranscript(videoId)
AnalyzeVideo(videoId) ==
    /\ video.pc = "idle"
    /\ video' = [video EXCEPT !.pc = "transcript"]
    /\ transcript' = [NoTranscript EXCEPT !.pc = "loop", !.videoId = videoId]
    /\ UNCHANGED <<callVars, agents, earlier, summary, overallRisk, post,
                   classification, results, state>>

\* methods[i]() settles inside fetchTranscript
MethodSettles ==
    /\ transcript.pc = "loop"
    /\ \E settled \in methods(transcript.i, transcript.videoId) :
          transcript' = FetchStep(transcript, settled)
    /\ UNCHANGED <<callVars, agents, earlier, summary, overallRisk, post,
                   classification, results, video, state>>

\* fetchTranscript has settled: the catch block with the metadata fallback if
\* it threw, the length check, and the OpenAI request
TranscriptSettles ==
    /\ video.pc = "transcript"
    /\ transcript.pc \in {"returned", "threw"}
    /\ \E metadata \in MetadataOutcomes :
          LET hasTranscript == transcript.pc = "returned"
              text0 == IF hasTranscript THEN transcript.returned
                       ELSE MetadataTranscript(transcript.videoId, metadata)
          IN IF text0 = "" \/ Len(text0) < 10
             THEN video' = [video EXCEPT
                     !.pc = "resolved", !.hasTranscript = hasTranscript,
                     !.transcript = text0,
                     !.value = [success |-> FALSE, analysis |-> Absent(""),
                                error |-> Present("Unable to retrieve video content for analysis")]]
             ELSE video' = [video EXCEPT
                     !.pc = "openai", !.hasTranscript = hasTranscript,
                     !.transcript = text0, !.requests = @ + 1]
    /\ UNCHANGED <<callVars, agents, earlier, summary, overallRisk, post,
                   classification, results, transcript, state>>

\* the OpenAI request settles
OpenAIResponds(response) ==
    /\ video.pc = "openai"
    /\ video' = [video EXCEPT !.pc = AfterResponse(response).pc,
                              !.response = response,
                              !.value = AfterResponse(response).value]
    /\ UNCHANGED <<callVars, agents, earlier, summary, overallRisk, post,
                   classification, results, transcript, state>>

VideoNext ==
    \/ \E videoId \in VideoIds : AnalyzeVideo(videoId)
    \/ MethodSettles
    \/ TranscriptSettles
    \/ \E response \in OpenAIResponses : OpenAIResponds(response)

VideoSpec == Init /\ [][VideoNext]_vars

(***************************************************************************)
(* The useYouTubeAnalysis hook                                             *)
(***************************************************************************)
\* what the user types into the URL field
Urls == {"", "https://youtu.be/dQw4w9WgXcQ", "dQw4w9WgXcQ", "not a url"}

\* how the request to /api/youtube-analyze can end:
\*   "rejects":  fetch rejects
\*   "ok":       response.ok, the body is the JSON `data`
\*   "error":    not OK with the given status, the JSON body has `message`
\*               (possibly none, possibly empty)
\*   "not_json": response.json() rejects, whatever the status
ServerOutcomes ==
    { [kind |-> "rejects", status |-> 0, message |-> Absent(""), data |-> ""] }
    \cup { [kind |-> "ok", status |-> 200, message |-> Absent(""), data |-> d] :
             d \in {"analysis A", "analysis B", "analysis C"} }
    \cup { [kind |-> "error", status |-> st, message |-> m, data |-> ""] :
             st \in {400, 500},
             m \in {Absent(""), Present(""), Present("Invalid YouTube URL format")} }
    \cup { [kind |-> "not_json", status |-> st, message |-> Absent(""), data |-> ""] :
             st \in {200, 500} }

\* the message of the error the try block ends with
ErrorMessage(outcome) ==
    CASE outcome.kind = "rejects" -> "Failed to fetch"
      [] outcome.kind = "not_json" -> "Unexpected token < in JSON at position 0"
      [] outcome.kind = "error" ->
            IF outcome.message.present /\ outcome.message.v # ""
            THEN outcome.message.v
            ELSE "HTTP " \o ToString(outcome.status)

\* the setState of the catch block
catchStateStillAnalyzing(prev, message) == [prev EXCEPT !.error = Present(message)]
catchState(prev, message) ==
    [prev EXCEPT !.isAnalyzing = FALSE, !.error = Present(message)]

\* setYoutubeUrl(url); App disables the field while isAnalyzing
SetYoutubeUrl(url) ==
    /\ ~state.isAnalyzing
    /\ state' = [state EXCEPT !.youtubeUrl = url, !.error = Absent("")]
    /\ UNCHANGED <<callVars, agents, earlier, summary, overallRisk, post,
                   classification, results, transcript, video>>

\* analyzeVideo() up to await fetch; App disables the button while isAnalyzing
AnalyzeVideoOfHook ==
    /\ ~state.isAnalyzing
    /\ IF state.youtubeUrl = ""
       THEN state' = [state EXCEPT !.error = Present("Please enter a YouTube URL")]
       ELSE state' = [state EXCEPT !.isAnalyzing = TRUE, !.error = Absent(""),
                                   !.request = "pending"]
    /\ UNCHANGED <<callVars, agents, earlier, summary, overallRisk, post,
                   classification, results, transcript, video>>

\* the request settles: the rest of the try block, or the catch block
ServerResponds(outcome) ==
    /\ state.request = "pending"
    /\ LET settled == [state EXCEPT !.request = "none"] IN
       IF outcome.kind = "ok"
       THEN state' = [settled EXCEPT !.analysisResult = Present(outcome.data),
                                     !.isAnalyzing = FALSE]
       ELSE state' = catchState(settled, ErrorMessage(outcome))
    /\ UNCHANGED <<callVars, agents, earlier, summary, overallRisk, post,
                   classification, results, transcript, video>>

HookNext ==
    \/ \E url \in Urls : SetYoutubeUrl(url)
    \/ AnalyzeVideoOfHook
    \/ \E outcome \in ServerOutcomes : ServerResponds(outcome)

\* a request that was sent settles
HookSpec ==
    /\ Init
    /\ [][HookNext]_vars
    /\ WF_vars(\E outcome \in ServerOutcomes : ServerResponds(outcome))

(***************************************************************************)
(* classifyPost(post)                                                      *)
(***************************************************************************)
\* what require() binds each name of classifyPost.js to: the module's
\* module.exports, which is the class itself.  `statics` are the properties a
\* class object has of its own, `prototype` the methods its instances have.
CerebrasAgentMethods ==
    {"analyze", "parseAIResponse", "fallbackAnalysis", "getName", "getDescription",
     "isReady", "getCapabilities"}

ToxicityAgentAIMethods ==
    {"loadModel", "analyze", "getSeverityLevel", "getName", "getDescription",
     "isReady", "getCapabilities"}

require(name) ==
    [kind |-> "class", statics |-> {},
     prototype |-> IF name = "toxicityAgentAI" THEN ToxicityAgentAIMethods
                   ELSE CerebrasAgentMethods]

\* binding.method is a function: a class object has only its static
\* properties, an instance would have the prototype's methods
IsFunction(binding, method) ==
    IF binding.kind = "class" THEN method \in binding.statics
    ELSE method \in binding.prototype

\* the five calls of lines 10-14, in order
AnalysisCalls ==
    <<[name |-> "biasAgent", method |-> "analyze", key |-> "bias"],
      [name |-> "coordinationAgent", method |-> "analyze", key |-> "coordination"],
      [name |-> "misinformationAgent", method |-> "analyze", key |-> "misinformation"],
      [name |-> "toxicityAgent", method |-> "analyze", key |-> "toxicity"],
      [name |-> "toxicityAgentAI", method |-> "evaluate", key |-> "advancedToxicity"]>>

scoreWeights ==
    [bias |-> Pct(20), coordination |-> Pct(20), misinformation |-> Pct(30),
     toxicity |-> Pct(15), advancedToxicity |-> Pct(15)]

\* the value an async analyze returns to a caller that does not await it: a
\* Promise, which has no score and no flagged property
PendingPromise(key) == [key |-> key, score |-> Absent(0), flagged |-> Absent(FALSE)]

\* x.score * weight, where x.score may be undefined (undefined * n is NaN)
Weighted(x, weight) ==
    IF x.score.present THEN Num((x.score.v * weight) \div One) ELSE NaN

RECURSIVE WeightedSum(_, _)
WeightedSum(analysis, i) ==
    IF i > Len(analysis) THEN Num(0)
    ELSE LET head == Weighted(analysis[i], scoreWeights[analysis[i].key])
             rest == WeightedSum(analysis, i + 1)
         IN IF head.isNaN \/ rest.isNaN THEN NaN ELSE Num(head.v + rest.v)

\* Math.max(0, Math.min(1, trustScore.toFixed(2)))
ClampFixed2(n) ==
    IF n.isNaN THEN NaN
    ELSE LET cents == (2 * n.v + Pct(1)) \div (2 * Pct(1))
         IN Num(Max(0, Min(One, cents * Pct(1))))

\* lines 32-36
Flags(analysis) ==
    LET on(key) == \E i \in 1..Len(analysis) :
                      analysis[i].key = key /\ analysis[i].flagged.present
                                           /\ analysis[i].flagged.v
    IN (IF on("bias") THEN <<"Bias">> ELSE <<>>) \o
       (IF on("coordination") THEN <<"Coordination">> ELSE <<>>) \o
       (IF on("misinformation") THEN <<"Misinformation">> ELSE <<>>) \o
       (IF on("toxicity") \/ on("advancedToxicity") THEN <<"Toxicity">> ELSE <<>>)

\* metadata.id || null, with metadata = {} when the post has none
IdOf(p) ==
    IF p.metadata.present /\ p.metadata.v.present /\ p.metadata.v.v # ""
    THEN Present(p.metadata.v.v) ELSE Absent("")

classifyPost(p) ==
    LET failing == {i \in 1..Len(AnalysisCalls) :
                      ~IsFunction(require(AnalysisCalls[i].name), AnalysisCalls[i].method)}
    IN IF failing # {}
       THEN LET c == AnalysisCalls[CHOOSE i \in failing : \A j \in failing : i <= j]
            IN [called |-> TRUE, threw |-> TRUE,
                error |-> "TypeError: " \o c.name \o "." \o c.method \o " is not a function",
                value |-> NoValue]
       ELSE LET analysis == [i \in 1..Len(AnalysisCalls) |->
                                PendingPromise(AnalysisCalls[i].key)]
                sum == WeightedSum(analysis, 1)
                trustScore == IF sum.isNaN THEN NaN ELSE Num(One - sum.v)
            IN [called |-> TRUE, threw |-> FALSE, error |-> "",
                value |-> [id |-> IdOf(p), title |-> p.title,
                           trustScore |-> ClampFixed2(trustScore),
                           flaggedCategories |-> Flags(analysis),
                           analysis |-> analysis]]

Metadata ==
    {Absent(Absent("")), Present(Absent("")), Present(Present("")), Present(Present("t3_abc"))}

Posts ==
    { [title |-> t, content |-> c, metadata |-> m] :
        t \in {"Post", ""}, c \in Texts("misinformation"), m \in Metadata }

\* const result = await classifyPost(post), for one post of runClassifier's loop
ClassifyPost(p) ==
    /\ ~classification.threw
    /\ post' = p
    /\ classification' = classifyPost(p)
    /\ UNCHANGED <<callVars, agents, earlier, summary, overallRisk, laterVars>>

\* runClassifier classifies the posts in a loop inside one try block: an
\* exception of classifyPost ends the loop
ClassifyNext == \E p \in Posts : ClassifyPost(p)

ClassifySpec == Init /\ [][ClassifyNext]_vars

(***************************************************************************)
(* Vocabulary of the properties                                            *)
(***************************************************************************)
Settled == pc \in {"returned", "rejected"}

\* the call ended in the fallback scorer: no credential, or a failed request
FallbackRan ==
    Settled /\ (~cerebrasApiKey \/ reply.kind \in FailureKinds)

\* the call ended in the fallback scorer scoring a string
ScoredText == FallbackRan /\ IsString(text)

\* the severity bucket of a score, by the largest threshold the score reaches
Thresholds ==
    {[at |-> Pct(80), label |-> "critical"], [at |-> Pct(60), label |-> "high"],
     [at |-> Pct(40), label |-> "medium"], [at |-> Pct(20), label |-> "low"]}

StepSeverity(score) ==
    LET reached == {th \in Thresholds : score >= th.at}
    IN IF reached = {} THEN "none"
       ELSE (CHOOSE th \in reached : \A o \in reached : o.at <= th.at).label

\* the lower-cased whitespace-separated tokens of the call's text
Tokens == split(toLowerCase(text.str))

\* the tokens among `tokens` that contain a keyword of the k-th category of the
\* agent's table
ExpectedMatches(tokens, k) ==
    SelectSeq(tokens,
              LAMBDA w : \E j \in 1..Len(fallbackPatterns(agent)[k].keywords) :
                            includes(w, fallbackPatterns(agent)[k].keywords[j]))

EntriesOf(name) ==
    {i \in 1..Len(result.categories) : result.categories[i].category = name}

\* the factual-error phrases contained in the lower-cased text of the call
MatchedFactualErrors ==
    LET lowerText == toLowerCase(text.str)
    IN {e \in UNION { {FactualErrors[k].errors[j] : j \in 1..Len(FactualErrors[k].errors)} :
                        k \in 1..Len(FactualErrors) } :
           includes(lowerText, e.pattern)}

\* the score the record holds for the category `name`, 0 if it has no entry
ScoreOfCategory(record, name) ==
    IF HasKey(record.categories, name)
    THEN record.categories[CHOOSE i \in 1..Len(record.categories) :
                              record.categories[i].category = name].score
    ELSE 0

\* the text consists of whitespace only (the empty text included)
IsBlank(s) == \A i \in 1..Len(s) : IsSpace(Chr(s, i))

(***************************************************************************)
(* Properties                                                              *)
(***************************************************************************)

\* C1: with a credential configured, when the request fails in transport or
\* returns a non-success HTTP status, analyze does not throw and resolves with
\* the record fallbackAnalysis returns for the same text.
C1_RemoteFailureGivesFallback ==
    (Settled /\ cerebrasApiKey /\ reply.kind \in {"transport", "http"})
        => /\ pc = "returned"
           /\ result = fallbackAnalysis(agent, text).value

C1_Witness ==
    /\ pc = "returned" /\ cerebrasApiKey /\ reply.kind = "http"
    /\ agent = "misinformation" /\ result.flagged
    /\ result.model = FallbackModel

\* C2: when the request succeeds at HTTP level but the reply text holds no JSON
\* object or invalid JSON, analyze resolves with the fallback record of the text
\* (model 'fallback-pattern-matcher'), after a single request.
C2_ParseFailureGivesFallback ==
    (Settled /\ reply.kind = "content" /\ reply.content.kind \in {"nojson", "badjson"})
        => /\ pc = "returned"
           /\ result = fallbackAnalysis(agent, text).value
           /\ result.model = FallbackModel
           /\ requests = 1

\* C3: one analyze call issues at most one remote request, whatever the reply,
\* and none when no API key is configured, in which case it resolves with the
\* record of fallbackAnalysis.
C3_AtMostOneRequest ==
    /\ requests <= 1
    /\ ~cerebrasApiKey =>
          /\ requests = 0
          /\ pc # "fetching"
          /\ Settled => (pc = "returned" /\ result = fallbackAnalysis(agent, text).value)

C3_Witness ==
    /\ pc = "returned" /\ cerebrasApiKey /\ reply.kind \in FailureKinds
    /\ requests = 1

\* C4: every analyze call eventually returns a record, also when the endpoint
\* never responds.
C4_EveryCallReturns == (pc = "fetching") ~> (pc = "returned")

\* C5: for every text, string or not, and every concern, fallbackAnalysis does
\* not throw and returns a score in [0,1]; a non-string text, whose lower-casing
\* raises an exception, gives the degraded record: severity 'error', an error
\* message, score 0.
C5_FallbackNeverThrows ==
    FallbackRan =>
        /\ pc = "returned"
        /\ result.score >= 0 /\ result.score <= One
        /\ ~IsString(text) =>
              /\ result.severity = "error"
              /\ result.error # NoError
              /\ result.score = 0

C5_Witness ==
    /\ pc = "returned" /\ FallbackRan /\ ~IsString(text)
    /\ result.severity = "error" /\ result.score = 0

C7_SeverityIsStepOfScore ==
    FallbackRan =>
        /\ result.severity = StepSeverity(result.score)
        /\ result.flagged = (result.severity # "none")

\* C7 (amended): in every record the fallback scorer produces from a string
\* text, severity is the step function of the score (>= 0.8 critical, >= 0.6
\* high, >= 0.4 medium, >= 0.2 low, else none), as is getSeverityLevel, and
\* flagged holds exactly when severity is not none; for a non-string text the
\* scorer returns the degraded record: score 0, severity 'error', not flagged.
C7_SeverityIsStepOfScoreOfText ==
    /\ ScoredText =>
          /\ result.severity = StepSeverity(result.score)
          /\ result.severity = getSeverityLevel(result.score)
          /\ result.flagged = (result.severity # "none")
    /\ (FallbackRan /\ ~IsString(text)) =>
          /\ result.score = 0 /\ result.severity = "error" /\ ~result.flagged
    /\ getSeverityLevel(Pct(65)) = "high"
    /\ getSeverityLevel(Pct(15)) = "none"

C7_Witness ==
    /\ pc = "returned" /\ ScoredText /\ agent = "toxicity"
    /\ result.score = Pct(65) /\ result.severity = "high" /\ result.flagged

\* C8: in the fallback scorer, for every category of the agent's table, the
\* recorded matches are exactly the lower-cased whitespace-separated tokens that
\* contain a keyword of the category, count is their number and the score is
\* min(1.0, count x increment); a category without such a token has no entry.
C8_CategoryMatchesAndScore ==
    ScoredText =>
        LET tokens == Tokens IN
        \A k \in 1..Len(fallbackPatterns(agent)) :
            LET name == fallbackPatterns(agent)[k].category
                expected == ExpectedMatches(tokens, k)
            IN IF expected = <<>>
               THEN EntriesOf(name) = {}
               ELSE /\ Cardinality(EntriesOf(name)) = 1
                    /\ \A i \in EntriesOf(name) :
                          /\ result.categories[i].matches = expected
                          /\ result.categories[i].count = Len(expected)
                          /\ result.categories[i].score =
                                Min(One, Len(expected) * Increment(agent))

C8_Witness ==
    /\ pc = "returned" /\ ScoredText /\ agent = "coordination"
    /\ \E i \in 1..Len(result.categories) :
          /\ result.categories[i].count * Increment(agent) > One
          /\ result.categories[i].score = One
    /\ \E i \in 1..Len(result.categories) :
          /\ result.categories[i].count = 1
          /\ result.categories[i].matches = <<"algorithm">>

\* C9: in the fallback scorer the aggregate score is the arithmetic mean of the
\* scores of the categories that have a match, and 0 when no category matched.
C9_ScoreIsMeanOfCategories ==
    FallbackRan =>
        LET matched == {i \in 1..Len(result.categories) : result.categories[i].count > 0}
        IN IF matched = {}
           THEN result.score = 0
           ELSE result.score * Cardinality(matched) = SumScores(result.categories, 1)

C9_Witness ==
    /\ pc = "returned" /\ ScoredText
    /\ Len(result.categories) = 2
    /\ result.categories[1].score # result.categories[2].score
    /\ result.score = Pct(65)

\* C10: when the lower-cased text contains a phrase of the factual-error table,
\* the misinformation fallback record is flagged and its score is at least the
\* score bound to that phrase, whatever else the text contains.
C10_FactualErrorForcesScore ==
    (ScoredText /\ agent = "misinformation") =>
        \A e \in MatchedFactualErrors :
            result.flagged /\ result.score >= e.score

\* C11: in the misinformation fallback record, when factual-error phrases
\* matched, recommendations hold one 'Factual error detected: <correction>'
\* entry per matched phrase and no generic entry; when the record is flagged
\* without a factual-error match they are exactly the generic entry; when it is
\* not flagged they are empty.
C11_MisinformationRecommendations ==
    (ScoredText /\ agent = "misinformation") =>
        LET recs == result.recommendations
            matched == MatchedFactualErrors
            generic == "Misinformation detected. Verify claims with reliable sources."
            entry(e) == "Factual error detected: " \o e.correct
        IN IF matched # {}
           THEN /\ \A e \in matched :
                      Cardinality({i \in 1..Len(recs) : recs[i] = entry(e)}) = 1
                /\ Len(recs) = Cardinality(matched)
                /\ \A i \in 1..Len(recs) : recs[i] # generic
           ELSE IF result.flagged
                THEN recs = <<generic>>
                ELSE recs = <<>>

C11_Witness ==
    /\ pc = "returned" /\ ScoredText /\ agent = "misinformation"
    /\ Cardinality(MatchedFactualErrors) = 2
    /\ Len(result.recommendations) = 2
    /\ HasKey(result.categories, "conspiracy_theories")

\* C16: with no API key configured, analyze of the toxicity and of the bias
\* agent resolves to the fallback record of the text; for 'you are stupid' the
\* toxicity record has the one match 'stupid' in category insults with category
\* score 0.3, score 0.3, severity 'low' and is flagged, and the bias record has
\* no match, score 0 and severity 'none'.
C16_NoKeyGivesFallbackExample ==
    (Settled /\ ~cerebrasApiKey /\ agent \in {"toxicity", "bias"}) =>
        /\ pc = "returned"
        /\ requests = 0
        /\ result = fallbackAnalysis(agent, text).value
        /\ IsString(text) => result.model = FallbackModel
        /\ (agent = "toxicity" /\ text = Str("you are stupid")) =>
              /\ result.categories =
                    <<[category |-> "insults", score |-> Pct(30),
                       matches |-> <<"stupid">>, count |-> 1, correction |-> ""]>>
              /\ result.flaggedWords = <<"stupid">>
              /\ result.score = Pct(30)
              /\ result.severity = "low"
              /\ result.flagged
        /\ (agent = "bias" /\ text = Str("you are stupid")) =>
              /\ result.categories = <<>>
              /\ result.flaggedWords = <<>>
              /\ result.score = 0
              /\ result.severity = "none"
              /\ ~result.flagged

C16_Witness ==
    /\ pc = "returned" /\ ~cerebrasApiKey /\ agent = "toxicity"
    /\ text = Str("you are stupid")
    /\ result.model = FallbackModel /\ result.score = Pct(30)

\* C17: for every text and every category, appending one more occurrence of a
\* token that already matches the category does not decrease the score the
\* fallback scorer gives that category, and the score stays at most 1.0.
C17_MoreOccurrencesNeverLower ==
    ScoredText =>
        LET tokens == Tokens IN
        \A k \in 1..Len(fallbackPatterns(agent)) :
            LET name == fallbackPatterns(agent)[k].category
                matches == ExpectedMatches(tokens, k)
            IN \A token \in {matches[i] : i \in 1..Len(matches)} :
                 LET longer == fallbackAnalysis(agent,
                                   Str(text.str \o " " \o token)).value
                 IN /\ ScoreOfCategory(longer, name) >= ScoreOfCategory(result, name)
                    /\ ScoreOfCategory(longer, name) <= One
                    /\ ScoreOfCategory(result, name) > 0

C17_Witness ==
    /\ pc = "returned" /\ ScoredText /\ agent = "coordination"
    /\ ScoreOfCategory(result, "bot_like_behavior") = Pct(90)
    /\ ScoreOfCategory(fallbackAnalysis(agent, Str(text.str \o " bot")).value,
                       "bot_like_behavior") = One

\* C19: for an empty or whitespace-only text the fallback scorer of every
\* concern returns, without failing, a record with no category, no flagged
\* token, score 0, severity 'none', not flagged, and no recommendation.
C19_BlankTextScoresNothing ==
    (ScoredText /\ IsBlank(text.str)) =>
        /\ pc = "returned"
        /\ result.categories = <<>>
        /\ result.flaggedWords = <<>>
        /\ result.score = 0
        /\ result.severity = "none"
        /\ ~result.flagged
        /\ result.recommendations = <<>>
        /\ result.error = NoError
        /\ result.model = FallbackModel

C19_Witness ==
    /\ pc = "returned" /\ ScoredText /\ text = Str(" \t\n")
    /\ agent = "misinformation" /\ result.severity = "none"

\* C15: for every summary of non-negative counts calculateOverallRisk returns
\* the highest severity with a non-zero count, in the order critical > high >
\* medium > low, and 'none' when the four counts are zero (critical 0, high 1,
\* medium 2, low 0 gives 'high'); the call leaves the summary as it was.
C15_HighestNonZeroBucket ==
    /\ [](overallRisk # NoRisk =>
            LET counts == <<[label |-> "critical", n |-> summary.criticalIssues],
                            [label |-> "high", n |-> summary.highIssues],
                            [label |-> "medium", n |-> summary.mediumIssues],
                            [label |-> "low", n |-> summary.lowIssues]>>
                nonZero == {i \in 1..4 : counts[i].n > 0}
            IN /\ nonZero = {} => overallRisk = "none"
               /\ nonZero # {} =>
                     overallRisk = counts[CHOOSE i \in nonZero :
                                            \A j \in nonZero : i <= j].label
               /\ (summary.criticalIssues = 0 /\ summary.highIssues = 1 /\
                   summary.mediumIssues = 2 /\ summary.lowIssues = 0)
                     => overallRisk = "high")
    /\ [][summary' = summary]_vars

C15_Witness ==
    /\ overallRisk = "high"
    /\ summary.criticalIssues = 0 /\ summary.highIssues = 1
    /\ summary.mediumIssues = 2 /\ summary.lowIssues = 0

\* the trust score the analyses of a ClassificationResult call for: 1 minus the
\* weighted sum of their scores, clamped to [0,1] and rounded to 2 decimals
ExpectedTrustScore(analysis) ==
    LET sum == WeightedSum(analysis, 1)
    IN IF sum.isNaN THEN NaN ELSE ClampFixed2(Num(One - sum.v))

\* C12: for every post classifyPost returns trustScore = 1 - sum of concern
\* score x weight over its analyses (weights 0.2, 0.2, 0.3, 0.15, 0.15, summing
\* to 1.0), clamped to [0,1] and rounded to 2 decimals: a number in [0,1].
C12_TrustScoreIsWeightedComplement ==
    classification.called =>
        /\ ~classification.threw
        /\ ~classification.value.trustScore.isNaN
        /\ classification.value.trustScore.v >= 0
        /\ classification.value.trustScore.v <= One
        /\ classification.value.trustScore =
              ExpectedTrustScore(classification.value.analysis)
        /\ scoreWeights.bias + scoreWeights.coordination + scoreWeights.misinformation
              + scoreWeights.toxicity + scoreWeights.advancedToxicity = One

\* C13: for every post flaggedCategories of classifyPost's result has no
\* duplicates and holds 'Bias', 'Coordination', 'Misinformation' exactly when
\* that concern's record is flagged, and one 'Toxicity' exactly when the
\* toxicity or the advanced-toxicity record is flagged.
C13_FlaggedCategoriesFollowRecords ==
    classification.called =>
        LET flags == classification.value.flaggedCategories
            analysis == classification.value.analysis
            flagged(key) == \E i \in 1..Len(analysis) :
                               /\ analysis[i].key = key
                               /\ analysis[i].flagged.present /\ analysis[i].flagged.v
            has(label) == \E i \in 1..Len(flags) : flags[i] = label
        IN /\ ~classification.threw
           /\ Len(analysis) = 5
           /\ \A i, j \in 1..Len(flags) : flags[i] = flags[j] => i = j
           /\ has("Bias") = flagged("bias")
           /\ has("Coordination") = flagged("coordination")
           /\ has("Misinformation") = flagged("misinformation")
           /\ has("Toxicity") = (flagged("toxicity") \/ flagged("advancedToxicity"))

\* C14: classifyPost never throws and always produces a complete
\* ClassificationResult, also for a content whose analysis errors.
C14_ClassifyPostNeverThrows ==
    classification.called =>
        /\ ~classification.threw
        /\ classification.value.title = post.title
        /\ Len(classification.value.analysis) = 5
        /\ ~classification.value.trustScore.isNaN

\* the call that has returned ran fallbackAnalysis alone: a direct call, or
\* analyze without an API key
FallbackCalled == pc = "returned" /\ requests = 0 /\ reply = NoReply

ParsedReply == Settled /\ reply.kind = "content" /\ reply.content.kind = "json"

\* C21: when the remote reply parses as a JSON object, analyze returns a record
\* whose flagged, score, severity, categories, flagged tokens and
\* recommendations are the reply's fields, a missing or falsy field defaulted
\* to false, 0, 'none' and the empty list, with the text of the call as text
\* and the remote model identifier as model.
C21_ParsedReplyIsMapped ==
    ParsedReply =>
        LET parsed == reply.content.parsed IN
        /\ pc = "returned"
        /\ result.text = text
        /\ result.model = RemoteModel
        /\ result.error = NoError
        /\ result.flagged = (parsed.flagged.present /\ parsed.flagged.v)
        /\ result.score =
              (IF parsed.score.present THEN parsed.score.v ELSE 0)
        /\ result.severity =
              (IF parsed.severity.present /\ parsed.severity.v # ""
               THEN parsed.severity.v ELSE "none")
        /\ result.categories =
              (IF parsed.categories.present THEN parsed.categories.v ELSE <<>>)
        /\ result.flaggedWords =
              (IF parsed.flaggedWords.present THEN parsed.flaggedWords.v ELSE <<>>)
        /\ result.recommendations =
              (IF parsed.recommendations.present THEN parsed.recommendations.v
               ELSE <<>>)

C21_Witness ==
    /\ ParsedReply /\ pc = "returned" /\ agent = "coordination"
    /\ IsString(text) /\ text.str # ""
    /\ ~reply.content.parsed.flagged.present
    /\ reply.content.parsed.score = Present(Pct(65))
    /\ reply.content.parsed.severity = Present("high")
    /\ reply.content.parsed.categories = Present(SampleList)
    /\ result.score = Pct(65) /\ ~result.flagged /\ result.severity = "high"
    /\ result.categories = SampleList /\ result.model = RemoteModel

Severities == {"none", "low", "medium", "high", "critical"}

\* C22: every record analyze returns, on any path, a parsed remote reply with
\* arbitrary field values included, has a score in [0,1] and a severity among
\* none, low, medium, high, critical, or 'error' for a degraded record.
C22_ScoreAndSeverityInRange ==
    pc = "returned" =>
        /\ result.score >= 0 /\ result.score <= One
        /\ result.severity \in Severities \cup {"error"}

C24_IdAndTitleCopied ==
    classification.called =>
        /\ ~classification.threw
        /\ classification.value.title = post.title
        /\ classification.value.id =
              (IF post.metadata.present /\ post.metadata.v.present
               THEN Present(post.metadata.v.v) ELSE Absent(""))

\* the entries of results.analyses with the given severity
EntriesWith(severity) ==
    {i \in 1..Len(results.analyses) : results.analyses[i].severity = severity}

\* the highest severity among the entries of results.analyses
HighestSeverity ==
    IF EntriesWith("critical") # {} THEN "critical"
    ELSE IF EntriesWith("high") # {} THEN "high"
    ELSE IF EntriesWith("medium") # {} THEN "medium"
    ELSE IF EntriesWith("low") # {} THEN "low"
    ELSE "none"

\* C25: for every text and every agents selection (string list or array,
\* with unknown or repeated names), the summary analyzeWithAgents returns has
\* totalIssues = criticalIssues + highIssues + mediumIssues + lowIssues, each
\* count is the number of entries of analyses with that severity, unknown
\* agent names give no entry, an {error, severity 'error'} entry is counted in
\* no bucket, and overallRisk is the highest severity among the entries
\* ('none' if no entry is low or above).
C25_SummaryCountsEntries ==
    results.pc = "done" =>
        /\ summary.totalIssues = summary.criticalIssues + summary.highIssues
                                   + summary.mediumIssues + summary.lowIssues
        /\ summary.criticalIssues = Cardinality(EntriesWith("critical"))
        /\ summary.highIssues = Cardinality(EntriesWith("high"))
        /\ summary.mediumIssues = Cardinality(EntriesWith("medium"))
        /\ summary.lowIssues = Cardinality(EntriesWith("low"))
        /\ \A i \in 1..Len(results.analyses) :
              results.analyses[i].category \in Concerns
        /\ overallRisk = HighestSeverity

\* an attempt of fetchTranscript that did not give a usable transcript
FailedAttempt(a) == a.threw \/ Len(a.value) <= 10

\* C26: fetchTranscript tries its four methods strictly in order 1, 2, 3, 4:
\* method k+1 is attempted only after method k threw or returned 10 characters
\* or fewer, no method is attempted twice, the value returned is that of the
\* first method that returned more than 10 characters, and no method is
\* attempted after it.
C26_MethodsInOrder ==
    LET attempts == transcript.attempts IN
    /\ Len(attempts) <= MethodsLength
    /\ \A k \in 1..Len(attempts) : attempts[k].method = k
    /\ \A k \in 1..(Len(attempts) - 1) : FailedAttempt(attempts[k])
    /\ transcript.pc = "loop" =>
          /\ transcript.i = Len(attempts)
          /\ \A k \in 1..Len(attempts) : FailedAttempt(attempts[k])
    /\ transcript.pc = "returned" =>
          /\ attempts # <<>>
          /\ ~FailedAttempt(attempts[Len(attempts)])
          /\ transcript.returned = attempts[Len(attempts)].value

C26_Witness ==
    /\ transcript.pc = "returned"
    /\ Len(transcript.attempts) = 3
    /\ transcript.attempts[1].threw
    /\ ~transcript.attempts[2].threw /\ transcript.attempts[2].value = "transcript"
    /\ transcript.returned = "transcripts"

\* C27: fetchTranscript never throws and always returns a string longer than
\* 10 characters, its fourth method being unable to fail; so in analyzeVideo
\* hasTranscript is true in every execution and the result 'Unable to retrieve
\* video content for analysis' is never returned.
C27_TranscriptAlwaysFetched ==
    /\ transcript.pc # "threw"
    /\ transcript.pc = "returned" => Len(transcript.returned) > 10
    /\ video.hasTranscript
    /\ video.pc \in {"openai", "resolved", "rejected"} =>
          /\ transcript.pc = "returned"
          /\ video.transcript = transcript.returned
    /\ video.value.error # Present("Unable to retrieve video content for analysis")

C27_Witness ==
    /\ transcript.pc = "returned"
    /\ Len(transcript.attempts) = MethodsLength
    /\ \A k \in 1..3 : transcript.attempts[k].threw
    /\ transcript.videoId = "a"
    /\ video.pc = "resolved" /\ video.hasTranscript /\ video.value.success

\* C28: analyzeVideo never rejects: for every outcome of the transcript fetch
\* and of the OpenAI call (transport error, non-OK status with or without a
\* JSON body, invalid JSON, reply without choices) it resolves to an object
\* with success = false and a non-empty error string; it resolves with
\* success = true and the analysis only when the OpenAI call returned OK with
\* a parseable completion; it issues at most one OpenAI request.
C28_AnalyzeVideoNeverRejects ==
    /\ video.pc # "rejected"
    /\ video.requests <= 1
    /\ video.pc = "resolved" =>
          /\ video.value.success =>
                /\ video.response \in {"completion", "no_content"}
                /\ video.requests = 1
                /\ ~video.value.error.present
                /\ video.response = "completion" => video.value.analysis.present
          /\ ~video.value.success =>
                /\ video.response \notin {"completion", "no_content"}
                /\ video.value.error.present
                /\ video.value.error.v # ""
                /\ ~video.value.analysis.present

C28_Witness ==
    /\ video.pc = "resolved" /\ ~video.value.success
    /\ video.response = "error_text" /\ video.requests = 1
    /\ video.value.error.present /\ video.value.error.v # ""

HasSpace(s) == \E i \in 1..Len(s) : IsSpace(Chr(s, i))

\* C30: in the fallback scorer a keyword that contains whitespace never
\* produces a match, matching being done per whitespace-separated token: every
\* match recorded for a category of the pattern table is a token without
\* whitespace that contains a single-word keyword of the category, and a
\* category whose keywords all contain whitespace never gets an entry; the
\* factual-error phrases of the misinformation agent, matched against the
\* whole lower-cased text, are flagged although they span tokens.
C30_OnlySingleWordKeywordsMatch ==
    ScoredText =>
        LET table == fallbackPatterns(agent)
            entries == result.categories
        IN /\ \A i \in 1..Len(entries) : \A k \in 1..Len(table) :
                 table[k].category = entries[i].category =>
                     \A m \in 1..Len(entries[i].matches) :
                        /\ ~HasSpace(entries[i].matches[m])
                        /\ \E j \in 1..Len(table[k].keywords) :
                              /\ ~HasSpace(table[k].keywords[j])
                              /\ includes(entries[i].matches[m], table[k].keywords[j])
           /\ \A k \in 1..Len(table) :
                 (\A j \in 1..Len(table[k].keywords) : HasSpace(table[k].keywords[j]))
                     => ~HasKey(entries, table[k].category)
           /\ agent = "misinformation" =>
                 \A e \in MatchedFactualErrors :
                    \E i \in 1..Len(result.flaggedWords) :
                       result.flaggedWords[i] = e.pattern

C30_Witness ==
    /\ pc = "returned" /\ ScoredText /\ agent = "coordination"
    /\ text.str = "share this bot"
    /\ ~HasKey(result.categories, "amplification")
    /\ HasKey(result.categories, "bot_like_behavior")

=============================================================================
